---- MODULE Spec2Model ----
(***************************************************************************)
(* Model of the Telebox mirror driver (app/teleboximp.py) and of the       *)
(* Telebox client it drives (telebox/__init__.py).                         *)
(*                                                                         *)
(* The main thread runs TeleboxImpl.main, which recurses through a call    *)
(* stack; doit opens a ThreadPoolExecutor whose workers run                *)
(* Upload.upload_file.  The remote service is the environment: it keeps a  *)
(* listing of entries and answers every request with one of the status     *)
(* values the client distinguishes.                                        *)
(***************************************************************************)
EXTENDS Integers, Sequences, FiniteSets, TLC

(***************************************************************************)
(* Bounds of the model.                                                    *)
(***************************************************************************)
\* pool size, int(Config.USR_LIMIT_CONCURRENT)
USR_LIMIT_CONCURRENT == 2
\* how many requests of one run the remote answers with something other
\* than plain success
MaxFaults == 1
\* how many create_folder_if_not_exists calls SpecResolve makes
MaxCalls == 2
\* how many entries the remote holds at the start of SpecResolve
MaxRemote == 2

(***************************************************************************)
(* Program constants.                                                      *)
(***************************************************************************)
\* Config.TELEBOX_BASEFOLDER, the folder used when no basefolder is given
TELEBOX_BASEFOLDER == 1
\* 'pageSize': 50 of Search.search
PageSize == 50
\* status of a successful answer
StatusOk == 1
\* status of a prepare answer for content the server already holds
StatusDedup == 600
\* any other status
StatusErr == 0

(***************************************************************************)
(* The local file system: paths are sequences of names.                    *)
(***************************************************************************)
Root == <<"root">>

TreeFlat ==
    [dirs  |-> {Root, Root \o <<"target">>, Root \o <<"target", "a">>},
     files |-> {Root \o <<"target", "b">>,
                Root \o <<"target", "a", "f1">>,
                Root \o <<"target", "a", "f2">>}]

TreeUpload ==
    [dirs  |-> {Root, Root \o <<"upload">>, Root \o <<"upload", "a">>,
                Root \o <<"upload", "a", "c">>, Root \o <<"upload", "d">>},
     files |-> {Root \o <<"r">>,
                Root \o <<"upload", "u">>,
                Root \o <<"upload", "a", "f1">>,
                Root \o <<"upload", "a", "f2">>,
                Root \o <<"upload", "a", "f3">>,
                Root \o <<"upload", "a", "c", "g">>,
                Root \o <<"upload", "d", "h">>}]

TreeNested ==
    [dirs  |-> {Root, Root \o <<"target">>, Root \o <<"target", "a">>,
                Root \o <<"target", "a", "upload">>,
                Root \o <<"target", "a", "upload", "c">>, Root \o <<"target", "d">>},
     files |-> {Root \o <<"r">>,
                Root \o <<"target", "b">>,
                Root \o <<"target", "a", "f1">>,
                Root \o <<"target", "a", "upload", "g">>,
                Root \o <<"target", "d", "h">>}]

\* the command lines: a tree, --dir and --foldername
Scenarios ==
    {[tree |-> TreeFlat,   dir |-> Root, foldername |-> "target"],
     [tree |-> TreeUpload, dir |-> Root, foldername |-> "upload"],
     [tree |-> TreeNested, dir |-> Root, foldername |-> "target"]}

NameOrder == <<"a", "b", "c", "d", "f1", "f2", "f3", "g", "h", "r", "target", "u", "upload">>

Reverse(s) == [i \in 1..Len(s) |-> s[Len(s) + 1 - i]]

\* os.listdir returns the names in an arbitrary order: one of two orders here
ListOrders == {NameOrder, Reverse(NameOrder)}

VARIABLES
    fs,         \* the local tree and its listing order
    arguments,  \* the shared arguments object: dir, foldername, basefolder
    stack,      \* the frames of main, the innermost last
    doit,       \* the running doit call: its loop and its executor
    tasks,      \* every task submitted to an executor, in submission order; prepare
                \* and finish hold the answered status once the call was made
    remote,     \* the remote listing: entries in the order the service lists them
    listing,    \* the order the service lists in: "oldestFirst" or "newestFirst"
    nextId,     \* the next ID the service assigns
    status,     \* "running", "done" (main returned) or "exited" (sys.exit in the main thread)
    faults,     \* requests answered with something other than plain success
    lookups,    \* search requests sent
    creates,    \* folder-create requests sent: name, pid, answer
    calls,      \* create_folder_if_not_exists calls: name, pid, returned id, whether a create was sent
    resolved    \* the subfolder_pid main obtained for each local directory: path, id, parent
                \* id, and whether it came from the cached listing

vars == <<fs, arguments, stack, doit, tasks, remote, listing, nextId, status, faults, lookups, creates, calls, resolved>>

----
(***************************************************************************)
(* os.listdir, os.path.isfile, os.path.isdir, os.path.basename             *)
(***************************************************************************)
isfile(path) == path \in fs.tree.files

isdir(path) == path \in fs.tree.dirs

listdir(path) ==
    LET present(n) == isfile(Append(path, n)) \/ isdir(Append(path, n))
    IN  SelectSeq(fs.order, present)

basename(path) == path[Len(path)]

(***************************************************************************)
(* The remote service and the client's view of it                          *)
(***************************************************************************)
\* the listing after the service stored a new entry
Stored(rem, e) == IF listing = "newestFirst" THEN <<e>> \o rem ELSE Append(rem, e)

Take(s, n) == IF Len(s) <= n THEN s ELSE SubSeq(s, 1, n)

\* Search.search: the first page of the entries of folder_id whose name
\* matches filename (the empty name matches every entry)
search(rem, filename, folder_id) ==
    LET hit(e) == e.pid = folder_id /\ (filename = "" \/ e.name = filename)
    IN  Take(SelectSeq(rem, hit), PageSize)

\* Search.folder_exists: the ID of the first entry of the answer when it is
\* a directory of folder_id, else False (0 here: both are falsy to the caller)
folder_exists(rem, filename, folder_id) ==
    LET lot == search(rem, filename, folder_id)
    IN  IF Len(lot) # 0
        THEN IF lot[1].type = "dir" /\ lot[1].pid = folder_id THEN lot[1].id ELSE 0
        ELSE 0

\* the answers of the folder-create endpoint: a new folder, success without
\* a usable ID, or a failure status
CreateAnswers == {"created", "minus1", "error"}

\* Folder.create: the request's answer as the client sees it, exit = sys.exit
FolderCreate(rem, id, filename, destination_folder_id, answer) ==
    CASE answer = "created" ->
            [exit |-> FALSE, dirId |-> id, status |-> StatusOk,
             remote |-> Stored(rem, [id |-> id, name |-> filename, type |-> "dir",
                                     pid |-> destination_folder_id])]
      [] answer = "minus1" ->
            [exit |-> FALSE, dirId |-> -1, status |-> StatusOk, remote |-> rem]
      [] OTHER ->
            [exit |-> TRUE, dirId |-> 0, status |-> StatusErr, remote |-> rem]

\* TeleboxImpl.create_folder_if_not_exists: created tells whether a create
\* request was sent
create_folder_if_not_exists(rem, id, foldername, folder_id, answer) ==
    LET pid == folder_exists(rem, foldername, folder_id)
    IN  IF pid = 0
        THEN LET c == FolderCreate(rem, id, foldername, folder_id, answer)
             IN  [exit |-> c.exit, pid |-> c.dirId, created |-> TRUE,
                  status |-> c.status, remote |-> c.remote]
        ELSE [exit |-> FALSE, pid |-> pid, created |-> FALSE,
              status |-> StatusOk, remote |-> rem]

----
(***************************************************************************)
(* Initial states                                                          *)
(***************************************************************************)
BaseFolder == TELEBOX_BASEFOLDER

Entry(id, name, type, pid) == [id |-> id, name |-> name, type |-> type, pid |-> pid]

\* what the base folder holds before the run
RemoteInits ==
    {<<>>,
     <<Entry(2, "a", "dir", BaseFolder)>>,
     <<Entry(2, "a", "file", BaseFolder)>>,
     <<Entry(2, "a", "dir", BaseFolder), Entry(3, "a", "dir", BaseFolder)>>,
     <<Entry(2, "a", "file", BaseFolder), Entry(3, "a", "dir", BaseFolder)>>}

\* the order of a listing is the service's: both natural ones are tried
ListingOrders == {"oldestFirst", "newestFirst"}

FirstNewId == 10

NoDoit == [active |-> FALSE, file_list |-> <<>>, i |-> 0, directory |-> <<>>,
           folder_pid |-> 0, has_directory |-> FALSE]

\* the frame of a main call that has not run its first statement yet
NewFrame == [pc |-> "enter", currentDir |-> <<>>, currentName |-> "", folder_pid |-> 0,
             folder_data |-> <<>>, directories |-> <<>>, directory |-> "",
             subfolder_pid |-> 0, ret |-> FALSE]

\* TeleboxImpl.__init__: the client is built and main(arguments) is called;
\* basefolder 0 stands for an argument that was not given
Init ==
    /\ \E sc \in Scenarios, o \in ListOrders, b \in {0, BaseFolder} :
          /\ fs = [tree |-> sc.tree, order |-> o]
          /\ arguments = [dir |-> sc.dir, foldername |-> sc.foldername, basefolder |-> b]
    /\ stack = <<NewFrame>>
    /\ doit = NoDoit
    /\ tasks = <<>>
    /\ remote \in RemoteInits
    /\ listing \in ListingOrders
    /\ nextId = FirstNewId
    /\ status = "running"
    /\ faults = 0
    /\ lookups = 0
    /\ creates = <<>>
    /\ calls = <<>>
    /\ resolved = <<>>

----
(***************************************************************************)
(* The main thread: TeleboxImpl.main and TeleboxImpl.doit                  *)
(***************************************************************************)
top == stack[Len(stack)]

SetTop(f) == [stack EXCEPT ![Len(stack)] = f]

\* a task that was submitted and has neither returned nor failed
Unfinished(t) == tasks[t].phase \in {"queued", "prepare", "transfer", "finish"}

\* a task whose upload_file call is in progress on a worker thread
InProgress(t) == tasks[t].phase \in {"prepare", "transfer", "finish"}

Running == status = "running" /\ Len(stack) > 0

\* the call doit(file_list, len_list, directory, folder_pid): the executor is
\* created and the loop stands before its first item
StartDoit(file_list, directory, folder_pid) ==
    [active |-> TRUE, file_list |-> file_list, i |-> 0, directory |-> directory,
     folder_pid |-> folder_pid, has_directory |-> FALSE]

\* if arguments.foldername != 'upload': the flush of loose files is skipped
\* for the folder name upload
SkipsFlushNever(foldername) == FALSE

SkipsFlush(foldername) == foldername = "upload"

\* main, from its first statement to the loose-file flush
MainEnter ==
    /\ Running /\ top.pc = "enter"
    /\ LET folder_pid == IF arguments.basefolder # 0 THEN arguments.basefolder
                         ELSE TELEBOX_BASEFOLDER
           f == [top EXCEPT !.currentDir = arguments.dir,
                            !.currentName = arguments.foldername,
                            !.folder_pid = folder_pid,
                            !.folder_data = search(remote, "", folder_pid)]
       IN  IF ~SkipsFlush(arguments.foldername)
           THEN /\ stack' = SetTop([f EXCEPT !.pc = "flush"])
                /\ doit' = StartDoit(listdir(arguments.dir), arguments.dir, folder_pid)
           ELSE /\ stack' = SetTop([f EXCEPT !.pc = "listdirs"])
                /\ doit' = doit
    /\ lookups' = lookups + 1
    /\ UNCHANGED <<fs, listing, resolved, arguments, tasks, remote, nextId, status, faults, creates, calls>>

\* has_directory after an item of file_list: set once a directory was seen
HasDirectoryLast(seen, path) == isdir(path)

HasDirectoryAlways(seen, path) == TRUE

HasDirectory(seen, path) == seen \/ isdir(path)

\* one iteration of doit's loop: a file is submitted to the executor, a
\* directory sets has_directory
DoitSubmit ==
    /\ Running /\ doit.active /\ doit.file_list # <<>>
    /\ LET file == Head(doit.file_list)
           path == Append(doit.directory, file)
       IN  /\ tasks' = IF isfile(path)
                       THEN Append(tasks, [i |-> doit.i, file |-> path, pid |-> doit.folder_pid,
                                           phase |-> "queued", prepare |-> <<>>,
                                           put |-> "none", finish |-> <<>>, result |-> 0])
                       ELSE tasks
           /\ doit' = [doit EXCEPT !.file_list = Tail(doit.file_list),
                                   !.i = doit.i + 1,
                                   !.has_directory = HasDirectory(doit.has_directory, path)]
    /\ UNCHANGED <<fs, listing, resolved, arguments, stack, remote, nextId, status, faults, lookups, creates, calls>>

\* the end of doit's with block: shutdown(wait=True) returns once every
\* submitted task has finished, then doit returns has_directory
ExecutorIdleNoWait == TRUE

ExecutorIdle == \A t \in 1..Len(tasks) : ~Unfinished(t)

DoitJoin ==
    /\ Running /\ doit.active /\ doit.file_list = <<>>
    /\ ExecutorIdle
    /\ doit' = NoDoit
    /\ stack' = SetTop(IF top.pc = "flush"
                       THEN [top EXCEPT !.pc = "listdirs"]
                       ELSE [top EXCEPT !.pc = "after", !.ret = doit.has_directory])
    /\ UNCHANGED <<fs, listing, resolved, arguments, tasks, remote, nextId, status, faults, lookups, creates, calls>>

\* directories = [d for d in os.listdir(dir/foldername) if isdir]
MainListDirs ==
    /\ Running /\ top.pc = "listdirs"
    /\ LET base == Append(arguments.dir, arguments.foldername)
           sub(d) == isdir(Append(base, d))
       IN  stack' = SetTop([top EXCEPT !.pc = "loop",
                                       !.directories = SelectSeq(listdir(base), sub)])
    /\ UNCHANGED <<fs, listing, resolved, arguments, doit, tasks, remote, nextId, status, faults, lookups, creates, calls>>

\* the entries of the cached listing named like the directory
Subfolder(folder_data, directory) ==
    LET named(d) == d.name = directory
    IN  SelectSeq(folder_data, named)

\* subfolder[0]['id']: the ID taken from the cached listing
CachedIdLast(subfolder) == subfolder[Len(subfolder)].id

CachedId(subfolder) == subfolder[1].id

\* the run stops in the main thread: Folder.create called sys.exit, or main
\* did because subfolder_pid == -1
FatalStatusOnly(r) == r.exit

Fatal(r) == r.exit \/ r.pid = -1

\* currentDir + '/' + currentName + '/' + directory
LocalPath(f, directory) == Append(Append(f.currentDir, f.currentName), directory)

\* the answer holds the ID of a folder that was found or created
GaveFolder(r) == ~r.exit /\ r.pid # -1

\* the head of the for loop: the remote folder of the next directory is taken
\* from the cached listing or from create_folder_if_not_exists
MainResolve ==
    /\ Running /\ top.pc = "loop" /\ top.directories # <<>>
    /\ LET directory == Head(top.directories)
           subfolder == Subfolder(top.folder_data, directory)
           f == [top EXCEPT !.directory = directory, !.directories = Tail(top.directories)]
       IN  IF subfolder # <<>>
           THEN /\ stack' = SetTop([f EXCEPT !.pc = "upload", !.subfolder_pid = CachedId(subfolder)])
                /\ resolved' = Append(resolved, [path |-> LocalPath(top, directory),
                                                 id |-> CachedId(subfolder),
                                                 pid |-> top.folder_pid, cached |-> TRUE])
                /\ UNCHANGED <<remote, nextId, status, faults, lookups, creates, calls>>
           ELSE \E answer \in CreateAnswers :
                   LET r == create_folder_if_not_exists(remote, nextId, directory,
                                                        top.folder_pid, answer)
                       fatal == Fatal(r)
                   IN  /\ r.created /\ answer # "created" => faults < MaxFaults
                       /\ ~r.created => answer = "created"
                       /\ faults' = IF r.created /\ answer # "created" THEN faults + 1 ELSE faults
                       /\ lookups' = lookups + 1
                       /\ creates' = IF r.created
                                     THEN Append(creates, [name |-> directory, pid |-> top.folder_pid,
                                                           status |-> r.status, dirId |-> r.pid])
                                     ELSE creates
                       /\ calls' = Append(calls, [name |-> directory, pid |-> top.folder_pid,
                                                  id |-> r.pid, created |-> r.created,
                                                  exit |-> r.exit])
                       /\ remote' = r.remote
                       /\ nextId' = IF r.remote # remote THEN nextId + 1 ELSE nextId
                       /\ status' = IF fatal THEN "exited" ELSE status
                       /\ stack' = SetTop(IF fatal THEN f
                                          ELSE [f EXCEPT !.pc = "upload", !.subfolder_pid = r.pid])
                       /\ resolved' = IF ~GaveFolder(r) THEN resolved
                                      ELSE Append(resolved, [path |-> LocalPath(top, directory),
                                                             id |-> r.pid, pid |-> top.folder_pid,
                                                             cached |-> FALSE])
    /\ UNCHANGED <<fs, listing, arguments, doit, tasks>>

\* the directory whose files are uploaded: built from the locals currentDir
\* and currentName, not from the arguments object
UploadPathFromArguments(f) == Append(Append(arguments.dir, arguments.foldername), f.directory)

UploadPath(f) == LocalPath(f, f.directory)

\* file_list = os.listdir(currentDir/currentName/directory) and the call of doit
MainUpload ==
    /\ Running /\ top.pc = "upload"
    /\ LET path == UploadPath(top)
       IN  doit' = StartDoit(listdir(path), path, top.subfolder_pid)
    /\ stack' = SetTop([top EXCEPT !.pc = "uploading"])
    /\ UNCHANGED <<fs, listing, resolved, arguments, tasks, remote, nextId, status, faults, lookups, creates, calls>>

\* args2 = arguments with dir, foldername and basefolder overwritten
RecurseArgsKeepBase(f) ==
    [dir |-> Append(f.currentDir, f.currentName),
     foldername |-> f.directory,
     basefolder |-> arguments.basefolder]

RecurseArgs(f) ==
    [dir |-> Append(f.currentDir, f.currentName),
     foldername |-> f.directory,
     basefolder |-> f.subfolder_pid]

\* if ret: the shared arguments object is overwritten and main calls itself
MainRecurse ==
    /\ Running /\ top.pc = "after"
    /\ IF top.ret
       THEN /\ arguments' = RecurseArgs(top)
            /\ stack' = Append(SetTop([top EXCEPT !.pc = "called"]), NewFrame)
       ELSE /\ arguments' = arguments
            /\ stack' = SetTop([top EXCEPT !.pc = "loop"])
    /\ UNCHANGED <<fs, listing, resolved, doit, tasks, remote, nextId, status, faults, lookups, creates, calls>>

\* the for loop is exhausted: main returns, to its caller's loop or to __init__
MainReturn ==
    /\ Running /\ top.pc = "loop" /\ top.directories = <<>>
    /\ IF Len(stack) = 1
       THEN /\ stack' = <<>>
            /\ status' = "done"
       ELSE /\ stack' = [SubSeq(stack, 1, Len(stack) - 1) EXCEPT ![Len(stack) - 1].pc = "loop"]
            /\ status' = status
    /\ UNCHANGED <<fs, listing, resolved, arguments, doit, tasks, remote, nextId, faults, lookups, creates, calls>>

----
(***************************************************************************)
(* The worker threads: upload_file_and_print_status and Upload.upload_file *)
(***************************************************************************)
NumInProgress == Cardinality({t \in 1..Len(tasks) : InProgress(t)})

\* the executor hands the oldest queued task to a worker while fewer than
\* max_workers tasks run; the worker enters upload_file
CanStartUnbounded(t) ==
    /\ tasks[t].phase = "queued"
    /\ \A u \in 1..(t - 1) : tasks[u].phase # "queued"

CanStart(t) ==
    /\ tasks[t].phase = "queued"
    /\ \A u \in 1..(t - 1) : tasks[u].phase # "queued"
    /\ NumInProgress < USR_LIMIT_CONCURRENT

WorkerStart(t) ==
    /\ status = "running"
    /\ CanStart(t)
    /\ tasks' = [tasks EXCEPT ![t].phase = "prepare"]
    /\ UNCHANGED <<fs, listing, resolved, arguments, stack, doit, remote, nextId, status, faults, lookups, creates, calls>>

\* where upload_file goes after the prepare answer: 600 returns 1, a status
\* other than 1 is sys.exit (SystemExit ends the task, not the process),
\* status 1 goes on to the transfer
AfterPrepareNoShortCircuit(st) ==
    IF st # StatusOk /\ st # StatusDedup THEN "failed" ELSE "transfer"

AfterPrepare(st) ==
    IF st = StatusDedup THEN "returned"
    ELSE IF st # StatusOk THEN "failed"
    ELSE "transfer"

WorkerPrepare(t, st) ==
    /\ status = "running"
    /\ tasks[t].phase = "prepare"
    /\ st # StatusOk => faults < MaxFaults
    /\ faults' = IF st # StatusOk THEN faults + 1 ELSE faults
    /\ tasks' = [tasks EXCEPT ![t].phase = AfterPrepare(st),
                              ![t].prepare = <<st>>,
                              ![t].result = IF st = StatusDedup THEN 1 ELSE 0]
    /\ UNCHANGED <<fs, listing, resolved, arguments, stack, doit, remote, nextId, status, lookups, creates, calls>>

\* the outcomes of requests.put: a 2xx response, a response with an error
\* status, or an exception of the transport
PutOutcomes == {"ok", "httperror", "raised"}

\* where upload_file goes after Upload.upload: the response is not looked
\* at, only an exception ends the call
AfterPut(o) == IF o = "raised" THEN "failed" ELSE "finish"

WorkerTransfer(t, o) ==
    /\ status = "running"
    /\ tasks[t].phase = "transfer"
    /\ o # "ok" => faults < MaxFaults
    /\ faults' = IF o # "ok" THEN faults + 1 ELSE faults
    /\ tasks' = [tasks EXCEPT ![t].phase = AfterPut(o), ![t].put = o]
    /\ UNCHANGED <<fs, listing, resolved, arguments, stack, doit, remote, nextId, status, lookups, creates, calls>>

\* where upload_file goes after the finish answer
AfterFinish(st) == IF st # StatusOk THEN "failed" ELSE "returned"

WorkerFinish(t, st) ==
    /\ status = "running"
    /\ tasks[t].phase = "finish"
    /\ st # StatusOk => faults < MaxFaults
    /\ faults' = IF st # StatusOk THEN faults + 1 ELSE faults
    /\ tasks' = [tasks EXCEPT ![t].phase = AfterFinish(st),
                              ![t].finish = <<st>>,
                              ![t].result = IF st = StatusOk THEN nextId ELSE 0]
    /\ remote' = IF st = StatusOk
                 THEN Stored(remote, [id |-> nextId, name |-> basename(tasks[t].file),
                                      type |-> "file", pid |-> tasks[t].pid])
                 ELSE remote
    /\ nextId' = IF st = StatusOk THEN nextId + 1 ELSE nextId
    /\ UNCHANGED <<fs, listing, resolved, arguments, stack, doit, status, lookups, creates, calls>>

PrepareStatuses == {StatusOk, StatusDedup, StatusErr}

FinishStatuses == {StatusOk, StatusErr}

Next ==
    \/ MainEnter
    \/ DoitSubmit
    \/ DoitJoin
    \/ MainListDirs
    \/ MainResolve
    \/ MainUpload
    \/ MainRecurse
    \/ MainReturn
    \/ \E t \in 1..Len(tasks) : WorkerStart(t)
    \/ \E t \in 1..Len(tasks), st \in PrepareStatuses : WorkerPrepare(t, st)
    \/ \E t \in 1..Len(tasks), o \in PutOutcomes : WorkerTransfer(t, o)
    \/ \E t \in 1..Len(tasks), st \in FinishStatuses : WorkerFinish(t, st)

Spec == Init /\ [][Next]_vars

----
(***************************************************************************)
(* create_folder_if_not_exists on its own: any remote listing, any name    *)
(* and parent, called up to MaxCalls times with nothing else touching the  *)
(* remote in between.                                                      *)
(***************************************************************************)
ResolveNames == {"a", "b"}

ResolveParents == {BaseFolder, 2}

\* the listings of at most n entries; the entry at position i has ID i + 1
RemoteListings(n) ==
    UNION {[1..k -> ResolveNames \X {"dir", "file"} \X ResolveParents] : k \in 0..n}

AsRemote(l) == [i \in 1..Len(l) |-> Entry(i + 1, l[i][1], l[i][2], l[i][3])]

InitResolve ==
    /\ fs = [tree |-> TreeFlat, order |-> NameOrder]
    /\ arguments = [dir |-> Root, foldername |-> "target", basefolder |-> 0]
    /\ stack = <<>>
    /\ doit = NoDoit
    /\ tasks = <<>>
    /\ \E l \in RemoteListings(MaxRemote) : remote = AsRemote(l)
    /\ listing \in ListingOrders
    /\ nextId = FirstNewId
    /\ status = "running"
    /\ faults = 0
    /\ lookups = 0
    /\ creates = <<>>
    /\ calls = <<>>
    /\ resolved = <<>>

\* one call create_folder_if_not_exists(foldername, folder_id) from the main thread
ResolveCall(foldername, folder_id, answer) ==
    /\ status = "running"
    /\ Len(calls) < MaxCalls
    /\ LET r == create_folder_if_not_exists(remote, nextId, foldername, folder_id, answer)
       IN  /\ ~r.created => answer = "created"
           /\ lookups' = lookups + 1
           /\ creates' = IF r.created
                         THEN Append(creates, [name |-> foldername, pid |-> folder_id,
                                               status |-> r.status, dirId |-> r.pid])
                         ELSE creates
           /\ calls' = Append(calls, [name |-> foldername, pid |-> folder_id,
                                      id |-> r.pid, created |-> r.created, exit |-> r.exit])
           /\ remote' = r.remote
           /\ nextId' = IF r.remote # remote THEN nextId + 1 ELSE nextId
           /\ status' = IF r.exit THEN "exited" ELSE status
    /\ UNCHANGED <<fs, listing, resolved, arguments, stack, doit, tasks, faults>>

NextResolve ==
    \E n \in ResolveNames, p \in ResolveParents, answer \in CreateAnswers : ResolveCall(n, p, answer)

SpecResolve == InitResolve /\ [][NextResolve]_vars

----
(***************************************************************************)
(* Properties                                                              *)
(***************************************************************************)
Tasks == 1..Len(tasks)

\* the file was transferred and the finish call put it into folder pid
Uploaded(file, pid) ==
    \E t \in Tasks : /\ tasks[t].file = file
                     /\ tasks[t].pid = pid
                     /\ tasks[t].phase = "returned"
                     /\ tasks[t].finish = <<StatusOk>>

\* the base folder held no entry named a before the run
NoChildNamedA ==
    \A k \in 1..Len(remote) :
        remote[k].id < FirstNewId => ~(remote[k].pid = BaseFolder /\ remote[k].name = "a")

\* C1: mirroring root/target/{a/{f1,f2}, b} under base folder P, where P has
\* no child named a and every request succeeds, ends with exactly one folder
\* a created under P, f1 and f2 uploaded into it, and b uploaded into P.
C1_FlatTreeMirrored ==
    (status = "done" /\ fs.tree = TreeFlat /\ faults = 0 /\ NoChildNamedA)
    => /\ Len(creates) = 1
       /\ creates[1].name = "a" /\ creates[1].pid = BaseFolder
       /\ Uploaded(Root \o <<"target", "a", "f1">>, creates[1].dirId)
       /\ Uploaded(Root \o <<"target", "a", "f2">>, creates[1].dirId)
       /\ Uploaded(Root \o <<"target", "b">>, BaseFolder)

\* a task ended because prepare answered neither 1 nor 600, or because
\* finish answered something other than 1
UploadFailed(t) ==
    /\ tasks[t].phase = "failed"
    /\ \/ tasks[t].prepare \notin {<<>>, <<StatusOk>>, <<StatusDedup>>}
       \/ tasks[t].finish \notin {<<>>, <<StatusOk>>}

\* C2: once the prepare or finish call of a submitted file has failed, the
\* driver starts no further folder lookup, folder creation or upload, and the
\* run does not complete normally.
C2_UploadFailureAborts ==
    [][(\E t \in Tasks : UploadFailed(t))
       => /\ lookups' = lookups
          /\ creates' = creates
          /\ Len(tasks') = Len(tasks)
          /\ status' # "done"]_vars

\* C3: while a submitted upload task is unfinished the driver stays where it
\* is: no lookup or creation request is sent and the frames of main are not
\* touched (no next subdirectory, no recursion).
C3_UploadBarrier ==
    [][(\E t \in Tasks : Unfinished(t))
       => /\ lookups' = lookups
          /\ creates' = creates
          /\ stack' = stack]_vars

\* the driver waits at the end of a batch while a task of the batch is
\* unfinished and a subdirectory is still to come
C3_Witness ==
    /\ status = "running" /\ Len(stack) > 0
    /\ doit.active /\ doit.file_list = <<>>
    /\ top.pc = "uploading" /\ top.directories # <<>>
    /\ \E t \in Tasks : Unfinished(t)
    /\ \E t \in Tasks : tasks[t].phase = "returned"

\* C4: at most USR_LIMIT_CONCURRENT upload_file calls are in progress.
C4_ConcurrencyBound == NumInProgress <= USR_LIMIT_CONCURRENT

\* the pool is full and a task of the batch waits in the queue, inside a
\* recursive call of main or at the top level
C4_Witness ==
    /\ NumInProgress = USR_LIMIT_CONCURRENT
    /\ \E t \in Tasks : tasks[t].phase = "queued"

Calls == 1..Len(calls)

\* C5: two calls create_folder_if_not_exists(name, parentId) in a row, the
\* first of which returned a folder ID, return the same ID, and the second
\* sends no create request.
C5_ResolveTwiceIdempotent ==
    \A i \in Calls :
        (/\ i + 1 \in Calls
         /\ calls[i].name = calls[i + 1].name
         /\ calls[i].pid = calls[i + 1].pid
         /\ ~calls[i].exit /\ calls[i].id > 0)
        => /\ calls[i + 1].id = calls[i].id
           /\ ~calls[i + 1].created

\* the positions of lot holding a directory called name under parent pid
DirMatches(lot, name, pid) ==
    {k \in 1..Len(lot) : lot[k].type = "dir" /\ lot[k].name = name /\ lot[k].pid = pid}

\* C6: when the listing of parentId filtered by name holds, at any position,
\* a directory with that name and parent, create_folder_if_not_exists returns
\* the ID of such an entry and sends no create request.
C6_ExistingFolderReused ==
    [][Len(calls') = Len(calls) + 1
       => LET c == calls'[Len(calls')]
              lot == search(remote, c.name, c.pid)
          IN  DirMatches(lot, c.name, c.pid) # {}
              => /\ ~c.created
                 /\ \E k \in DirMatches(lot, c.name, c.pid) : c.id = lot[k].id]_vars

\* C7: a prepare answer of 600 makes upload_file return 1 without transfer
\* and without finish call; transfer and finish happen only after a prepare
\* answer of 1.
C7_DedupShortCircuits ==
    \A t \in Tasks :
        /\ tasks[t].prepare = <<StatusDedup>>
           => /\ tasks[t].phase = "returned" /\ tasks[t].result = 1
              /\ tasks[t].put = "none" /\ tasks[t].finish = <<>>
        /\ (tasks[t].phase \in {"transfer", "finish"} \/ tasks[t].put # "none"
                \/ tasks[t].finish # <<>>)
           => tasks[t].prepare = <<StatusOk>>

\* one file was short-circuited by a 600 answer and another went through
\* transfer and finish
C7_Witness ==
    /\ \E t \in Tasks : tasks[t].prepare = <<StatusDedup>> /\ tasks[t].phase = "returned"
    /\ \E t \in Tasks : tasks[t].put = "ok" /\ tasks[t].finish = <<StatusOk>>

\* C8: when the PUT of the file bytes does not succeed, no finish call is
\* made for the file and no item ID is returned for it.
C8_TransferFailureFatal ==
    \A t \in Tasks :
        tasks[t].put \in {"httperror", "raised"}
        => tasks[t].finish = <<>> /\ tasks[t].result = 0

\* a folder creation failed: Folder.create met a status other than 1, or the
\* resolved ID is -1
FolderCreationFailed == \E i \in Calls : calls[i].exit \/ calls[i].id = -1

\* C9: after a failed folder creation the run has stopped: no upload is
\* submitted and no lookup or creation request is sent any more.
C9_CreateFailureStops ==
    [][FolderCreationFailed
       => /\ Len(tasks') = Len(tasks)
          /\ lookups' = lookups
          /\ creates' = creates
          /\ status' = "exited"]_vars

\* the run stopped at a failed creation with files of that directory and
\* a later subdirectory left untouched
C9_Witness ==
    /\ status = "exited" /\ Len(stack) > 0 /\ FolderCreationFailed
    /\ top.directories # <<>>
    /\ listdir(Append(Append(top.currentDir, top.currentName), top.directory)) # <<>>

\* C10: an invocation of main whose folder name is upload never runs the
\* flush of the files lying directly in its root local directory.
C10_UploadNameSkipsFlush ==
    \A k \in 1..Len(stack) :
        stack[k].currentName = "upload" => stack[k].pc # "flush"

\* an invocation named upload is in its loop over the subdirectories while
\* its root local directory holds a file
C10_Witness ==
    \E k \in 1..Len(stack) :
        /\ stack[k].currentName = "upload"
        /\ stack[k].pc \in {"loop", "upload", "uploading"}
        /\ \E n \in 1..Len(fs.order) : isfile(Append(stack[k].currentDir, fs.order[n]))

\* the positions of the cached listing whose entry is named like the directory
CachedHits(f, directory) ==
    {k \in 1..Len(f.folder_data) : f.folder_data[k].name = directory}

\* the step of main that resolves the remote folder of the next directory
ResolveStep ==
    /\ status = "running" /\ Len(stack) > 0
    /\ top.pc = "loop" /\ top.directories # <<>>
    /\ stack' # stack

\* C11: when the cached listing holds two or more entries named like the
\* subdirectory, the ID used is that of the first of them in listing order
\* and no folder is created.
C11_FirstCachedEntryWins ==
    [][ResolveStep
       => LET d == Head(top.directories)
              hits == CachedHits(top, d)
          IN  Cardinality(hits) >= 2
              => /\ \E k \in hits : /\ \A j \in hits : k <= j
                                    /\ stack'[Len(stack')].subfolder_pid = top.folder_data[k].id
                 /\ stack'[Len(stack')].pc = "upload"
                 /\ creates' = creates
                 /\ calls' = calls]_vars

\* a directory was resolved from a cached listing holding two entries of
\* its name with different IDs
C11_Witness ==
    /\ status = "running" /\ Len(stack) > 0
    /\ top.pc = "upload"
    /\ \E j, k \in CachedHits(top, top.directory) :
          /\ j < k
          /\ top.folder_data[j].id # top.folder_data[k].id

\* the IDs of the remote entries that are files
FileIds == {remote[k].id : k \in {j \in 1..Len(remote) : remote[j].type = "file"}}

\* C12: an ID is reused from the cached listing only for a directory entry,
\* so no upload goes into the ID of a remote file entry.
C12_OnlyDirectoriesReused ==
    /\ \A i \in 1..Len(resolved) : resolved[i].cached => resolved[i].id \notin FileIds
    /\ \A t \in Tasks : tasks[t].pid \notin FileIds

\* the command line the run was started with
TopScenario == CHOOSE sc \in Scenarios : sc.tree = fs.tree

\* <dir>/<foldername> of the top-level invocation
TopPath == Append(TopScenario.dir, TopScenario.foldername)

\* C13: when the top-level folder name is not upload, the loose files are
\* flushed once, by the top-level invocation: no recursive invocation of
\* main runs a flush.
C13_FlushOnlyAtTopLevel ==
    TopScenario.foldername # "upload"
    => \A k \in 2..Len(stack) : stack[k].pc # "flush"

\* the folder IDs the run has obtained so far: the base folder it was given
\* and the IDs found or created for local directories
KnownIds == {BaseFolder} \cup {resolved[i].id : i \in 1..Len(resolved)}

\* C14: the remote parent folder ID of every invocation of main was given
\* as base, found or created before anything is uploaded into it, before it
\* is listed and before a child folder is resolved under it.
C14_ParentResolvedFirst ==
    /\ \A t \in Tasks : tasks[t].pid \in KnownIds
    /\ doit.active => doit.folder_pid \in KnownIds
    /\ \A k \in 1..Len(stack) : stack[k].pc # "enter" => stack[k].folder_pid \in KnownIds
    /\ \A i \in 1..Len(creates) : creates[i].pid \in KnownIds
    /\ \A i \in Calls : calls[i].pid \in KnownIds
    /\ \A i \in 1..Len(resolved) :
          resolved[i].pid \in {BaseFolder} \cup {resolved[j].id : j \in 1..(i - 1)}

\* a recursive invocation uploads into a folder it resolved under the folder
\* its caller resolved
C14_Witness ==
    /\ Len(stack) >= 2
    /\ top.pc = "uploading" /\ top.folder_pid # BaseFolder
    /\ \E t \in Tasks : tasks[t].pid = top.subfolder_pid /\ tasks[t].phase = "returned"

\* the names a local directory entry can have
LocalNames == {fs.order[i] : i \in 1..Len(fs.order)}

\* the local directory holds at least one directory
HasNested(path) == \E n \in LocalNames : Append(path, n) \in fs.tree.dirs

\* the step of main after doit returned for a subdirectory
AfterStep ==
    /\ status = "running" /\ Len(stack) > 0
    /\ top.pc = "after"
    /\ stack' # stack

\* the first step of a recursive invocation of main
RecursiveEnterStep ==
    /\ status = "running" /\ Len(stack) >= 2
    /\ top.pc = "enter"
    /\ stack' # stack

\* C15: once the files of subdirectory S are uploaded, main recurses into S
\* exactly when S holds a nested directory, and the recursive invocation
\* runs with local root <rootDir>/<folderName>, folder name S and the remote
\* folder ID just resolved for S as base folder.
C15_RecurseIffNested ==
    [][/\ AfterStep
          => LET S == Append(Append(top.currentDir, top.currentName), top.directory)
             IN  /\ \A n \in LocalNames :
                       Append(S, n) \in fs.tree.files
                       => \E t \in Tasks : tasks[t].file = Append(S, n) /\ ~Unfinished(t)
                 /\ (Len(stack') = Len(stack) + 1) <=> HasNested(S)
                 /\ HasNested(S)
                    => arguments' = [dir |-> Append(top.currentDir, top.currentName),
                                     foldername |-> top.directory,
                                     basefolder |-> top.subfolder_pid]
       /\ RecursiveEnterStep
          => LET caller == stack[Len(stack) - 1]
                 callee == stack'[Len(stack)]
             IN  /\ callee.currentDir = Append(caller.currentDir, caller.currentName)
                 /\ callee.currentName = caller.directory
                 /\ callee.folder_pid = caller.subfolder_pid]_vars

\* main recursed into a subdirectory that holds a nested directory, and
\* went on to the next one for a subdirectory that holds none
C15_Witness ==
    /\ Len(stack) >= 2
    /\ top.pc = "loop"
    /\ top.currentName = stack[Len(stack) - 1].directory
    /\ HasNested(Append(top.currentDir, top.currentName))
    /\ \E i \in 1..Len(resolved) : ~HasNested(resolved[i].path)

\* the local directory that directly holds the file
Parent(path) == SubSeq(path, 1, Len(path) - 1)

\* C16: every submitted upload goes into the remote folder of the local
\* directory that directly holds the file: the base folder for the root
\* local directory (and for <dir>/<foldername>, which the base folder
\* mirrors), the folder resolved for S for a file directly inside S.
C16_UploadsIntoOwnFolder ==
    \A t \in Tasks :
        LET d == Parent(tasks[t].file)
        IN  IF d \in {TopScenario.dir, TopPath}
            THEN tasks[t].pid = BaseFolder
            ELSE \E i \in 1..Len(resolved) :
                    resolved[i].path = d /\ resolved[i].id = tasks[t].pid

\* path lies strictly below base
Below(path, base) == Len(path) > Len(base) /\ SubSeq(path, 1, Len(base)) = base

\* the remote folder ID belonging to a local directory: the base folder for
\* <dir>/<foldername>, else the ID resolved for the directory
FolderOf(path) ==
    IF path = TopPath THEN {BaseFolder}
    ELSE {resolved[i].id : i \in {j \in 1..Len(resolved) : resolved[j].path = path}}

\* C17: no directory has its remote folder resolved twice, each resolved
\* folder lies under the folder resolved for the local parent directory (the
\* base folder for the direct subdirectories of <dir>/<foldername>), and a
\* run without failures ends with every directory below <dir>/<foldername>
\* resolved.
C17_EveryDirectoryResolvedOnce ==
    /\ \A i, j \in 1..Len(resolved) : resolved[i].path = resolved[j].path => i = j
    /\ \A i \in 1..Len(resolved) :
          /\ Below(resolved[i].path, TopPath)
          /\ resolved[i].path \in fs.tree.dirs
          /\ FolderOf(Parent(resolved[i].path)) = {resolved[i].pid}
          /\ \E k \in 1..Len(remote) : /\ remote[k].id = resolved[i].id
                                       /\ remote[k].pid = resolved[i].pid
    /\ (status = "done" /\ faults = 0)
       => \A p \in fs.tree.dirs :
             Below(p, TopPath) => \E i \in 1..Len(resolved) : resolved[i].path = p

\* a run without failures is over and resolved a directory two levels below
\* <dir>/<foldername>
C17_Witness ==
    /\ status = "done" /\ faults = 0
    /\ \E i \in 1..Len(resolved) : Len(resolved[i].path) >= Len(TopPath) + 2

\* <dir>/<foldername> as invocation k of the stack was called with: the
\* top-level path followed by the directories the callers are working on
EntryPath(k) == TopPath \o [j \in 1..(k - 1) |-> stack[j].directory]

\* the remote parent folder invocation k was called with
EntryPid(k) == IF k = 1 THEN BaseFolder ELSE stack[k - 1].subfolder_pid

\* C18: whatever recursive invocations wrote into the arguments object, an
\* invocation keeps listing its subdirectories from the <dir>/<foldername>
\* it was called with and resolving them under the remote parent folder it
\* was called with.
C18_CallerContextKept ==
    \A k \in 1..Len(stack) :
        /\ stack[k].pc # "enter"
           => /\ Append(stack[k].currentDir, stack[k].currentName) = EntryPath(k)
              /\ stack[k].folder_pid = EntryPid(k)
        /\ stack[k].pc \in {"upload", "uploading", "after", "called"}
           => /\ Append(EntryPath(k), stack[k].directory) \in fs.tree.dirs
              /\ \E i \in 1..Len(resolved) :
                    /\ resolved[i].path = Append(EntryPath(k), stack[k].directory)
                    /\ resolved[i].pid = EntryPid(k)
                    /\ resolved[i].id = stack[k].subfolder_pid
        /\ (stack[k].pc = "uploading" /\ status = "running")
           => doit.directory = Append(EntryPath(k), stack[k].directory)

\* a recursive invocation has returned, leaving its values in the arguments
\* object, and the caller uploads the files of a later sibling
C18_Witness ==
    /\ status = "running" /\ Len(stack) = 1
    /\ top.pc = "uploading"
    /\ arguments.dir # top.currentDir
    /\ arguments.basefolder # top.folder_pid
    /\ \E t \in Tasks : Parent(tasks[t].file) = doit.directory

----
(***************************************************************************)
(* Termination: the main thread and the workers are scheduled by the       *)
(* operating system and the service answers every request, so a step that  *)
(* can be taken is taken eventually.                                       *)
(***************************************************************************)
SpecFair == Spec /\ WF_vars(Next)

\* how many levels of directories lie below <dir>/<foldername>
TreeDepth ==
    LET levels == {Len(p) - Len(TopPath) : p \in {q \in fs.tree.dirs : Below(q, TopPath)}}
    IN  IF levels = {} THEN 0
        ELSE CHOOSE d \in levels : \A e \in levels : e <= d

\* C19: a mirror run over a finite tree ends, by normal completion or by a
\* fatal exit, and the invocations of main on the stack (the top-level one
\* included) never number more than the levels of directories below
\* <dir>/<foldername>, the top-level invocation apart.
C19_TerminatesWithinDepth ==
    /\ [](Len(stack) <= IF TreeDepth = 0 THEN 1 ELSE TreeDepth)
    /\ <>(status \in {"done", "exited"})

\* a run over a tree three levels deep has completed and reached the
\* deepest directory
C19_Witness ==
    /\ status = "done"
    /\ TreeDepth >= 3
    /\ \E i \in 1..Len(resolved) : Len(resolved[i].path) = Len(TopPath) + TreeDepth

====
